---- MODULE Spec2Model ----
(***************************************************************************)
(* A model of the LibertAI inference gateway (libertai-models):            *)
(*   - ImagePipelineManager (src/src/image_generation.py): the lazily      *)
(*     constructed, lock-guarded image pipeline, called from threads;      *)
(*   - KeysManager and POST /libertai/api-keys (src/src/api_keys.py);      *)
(*   - proxy_request (src/src/proxy.py) with the usage extractors of       *)
(*     src/src/usage.py.                                                   *)
(* SpecPipeline runs the pipeline manager, Spec the application that       *)
(* server.py mounts (credential endpoint and proxy on one cooperative      *)
(* scheduler).                                                             *)
(***************************************************************************)
EXTENDS Integers, Sequences, FiniteSets, TLC

VARIABLES
    \* ---- ImagePipelineManager ----
    DIFFUSERS_AVAILABLE, \* image_generation.py:11/13, fixed at import
    pipeline,            \* ImagePipelineManager._pipeline
    lock,                \* ImagePipelineManager._lock: holder thread or Free
    tpc,                 \* per thread: position inside load_pipeline
    tpath,               \* per thread: model_path argument of the current call
    ret,                 \* per thread: outcome of its last finished load_pipeline
    got,                 \* result of the last get_pipeline call
    calls,               \* number of load_pipeline calls started
    sawFail,             \* per thread: its current call began after a failed construction
    constructions,       \* history: number of from_pretrained executions
    failedCat,           \* history: category of the first construction failure
    loadedOk,            \* history: some load_pipeline call returned normally
    overlapAll,          \* history: no load_pipeline call began after another had returned
    \* ---- KeysManager / POST /libertai/api-keys ----
    keys,                \* KeysManager.keys
    upd,                 \* history: the last POST /api-keys (status, set before, keys delivered)
    kcall,               \* the receive_api_keys call in progress: position, local variable keys
    everOk,              \* history: some POST /api-keys has been answered 200
    \* ---- proxy_request (one request at a time on the event loop) ----
    rpc,                 \* position of the request inside proxy_request
    req,                 \* the request: token, model, full_path
    checked,             \* history: what held when lines 74-90 ran
    sent,                \* history: client.send was called for this request
    up,                  \* the upstream response: state, status, content type, body
    rest,                \* chunks the upstream has still to deliver (response.aiter_bytes)
    pending,             \* the chunk handed to the client at the yield of line 116
    buffer,              \* full_response_buffer
    relay,               \* how generate_chunks ended, and whether it raised
    scheduled,           \* background_tasks: the usage events added for this request
    resp,                \* what the client receives
    \* ---- image_routes.py: one image request at a time on the event loop ----
    ipc,                 \* "idle", or "handled" when the handler has run to its return
    ireq,                \* the image request
    ichecked,            \* history: what held when validate_model_and_endpoint ran
    icalls,              \* history: load_pipeline / generate_image calls made, with arguments
    ischeduled,          \* background_tasks of the image request
    iresp,               \* the response: status and detail
    \* ---- server.py: lifespan and run_jobs ----
    serving,             \* the process is up (between startup and shutdown)
    job,                 \* the task created from run_jobs() at startup
    \* ---- usage.py: the two extractors applied to one payload ----
    upayload,            \* the payload
    uendpoint,           \* context.endpoint
    ujson,               \* result of extract_usage_info on the parsed document
    uraw,                \* result of extract_usage_info_from_raw on the bytes
    \* ---- usage.py: report_usage_event_task run as a background task ----
    report               \* the task's position, its POSTs and what it printed

pipeVars == <<DIFFUSERS_AVAILABLE, pipeline, lock, tpc, tpath, ret, got, calls,
              sawFail, constructions, failedCat, loadedOk, overlapAll>>

keyVars == <<keys, upd, kcall, everOk>>

proxyVars == <<rpc, req, checked, sent, up, rest, pending, buffer, relay, scheduled,
               resp>>

imgVars == <<ipc, ireq, ichecked, icalls, ischeduled, iresp>>

jobVars == <<serving, job>>

usageVars == <<upayload, uendpoint, ujson, uraw>>

taskVars == <<report>>

vars == <<pipeVars, keyVars, proxyVars, imgVars, jobVars, usageVars, taskVars>>

-----------------------------------------------------------------------------
(* Bounds *)

NThreads == 2
MaxCalls == 3

MaxKeyListLen == 2

Threads == 1..NThreads
ModelPaths == {"pathA", "pathB"}

None == "None"
Free == 0

\* self._pipeline is None (image_generation.py:35).
NoPipeline == [path |-> None, on_device |-> FALSE]
NotLoaded == "Pipeline not loaded. Call load_pipeline() first."
NotCalled == [error |-> "not called", handle |-> NoPipeline]

\* Outcomes of one step of the construction (image_generation.py:60-73).
ConstructionResults == {"ok", "oom", "other"}

-----------------------------------------------------------------------------
(* ImagePipelineManager *)

\* ZImagePipeline.from_pretrained(model_path, ...): a fresh handle, not yet
\* on the target device.
from_pretrained(path) == [path |-> path, on_device |-> FALSE]

\* The handle after self._pipeline.to(self._device) has completed.
to_device(p) == [p EXCEPT !.on_device = TRUE]

\* What from_pretrained leaves in self._pipeline when it raises: the
\* assignment of line 61 never happens.
pipeline_after_failed_from_pretrained(old) == old

\* What is left in self._pipeline when .to() raises (line 66): the handle
\* assigned at line 61 stays published; no except clause resets it.
pipeline_after_failed_to(p) == p

\* get_pipeline (image_generation.py:75-79).
get_pipeline ==
    IF pipeline = NoPipeline
      THEN [error |-> NotLoaded, handle |-> NoPipeline]
      ELSE [error |-> None, handle |-> pipeline]

InLoad(t) == tpc[t] # "idle"

\* The test "self._pipeline is None" of lines 52 and 55, made by a caller
\* that asked for path.  The first variant is a manager that keeps its
\* handle per model path.
pipeline_is_none_for_path(path) == pipeline.path # path

pipeline_is_none(path) == pipeline = NoPipeline

\* A thread returns from load_pipeline, normally ("ok") or by raising
\* RuntimeError of category r.
Return(t, r) ==
    /\ tpc' = [tpc EXCEPT ![t] = "idle"]
    /\ tpath' = [tpath EXCEPT ![t] = None]
    /\ ret' = [ret EXCEPT ![t] = r]
    /\ loadedOk' = (loadedOk \/ r = "ok")

\* load_pipeline entry, lines 44-50.
CallLoad(t, path) ==
    /\ tpc[t] = "idle"
    /\ calls < MaxCalls
    /\ calls' = calls + 1
    /\ sawFail' = [sawFail EXCEPT ![t] = (failedCat # None)]
    /\ overlapAll' = (overlapAll /\ \A u \in Threads : ret[u] = None)
    /\ IF ~DIFFUSERS_AVAILABLE
         THEN Return(t, "deps")
         ELSE /\ tpc' = [tpc EXCEPT ![t] = "check"]
              /\ tpath' = [tpath EXCEPT ![t] = path]
              /\ UNCHANGED <<ret, loadedOk>>
    /\ UNCHANGED <<keyVars, proxyVars, imgVars, jobVars, usageVars, taskVars, DIFFUSERS_AVAILABLE, pipeline, lock, got, constructions, failedCat>>

\* line 52: the lock-free test.
FastCheck(t) ==
    /\ tpc[t] = "check"
    /\ IF pipeline_is_none(tpath[t])
         THEN /\ tpc' = [tpc EXCEPT ![t] = "acquire"]
              /\ UNCHANGED <<ret, loadedOk, tpath>>
         ELSE Return(t, "ok")
    /\ UNCHANGED <<keyVars, proxyVars, imgVars, jobVars, usageVars, taskVars, DIFFUSERS_AVAILABLE, pipeline, lock, got, calls, sawFail,
                   constructions, failedCat, overlapAll>>

\* line 53: with self._lock (blocks while another thread holds it).
Acquire(t) ==
    /\ tpc[t] = "acquire"
    /\ lock = Free
    /\ lock' = t
    /\ tpc' = [tpc EXCEPT ![t] = "recheck"]
    /\ UNCHANGED <<keyVars, proxyVars, imgVars, jobVars, usageVars, taskVars, DIFFUSERS_AVAILABLE, pipeline, tpath, ret, got, calls, sawFail,
                   constructions, failedCat, loadedOk, overlapAll>>

\* line 55: the second test, under the lock; leaving the with block
\* releases the lock.
Recheck(t) ==
    /\ tpc[t] = "recheck"
    /\ IF pipeline_is_none(tpath[t])
         THEN /\ tpc' = [tpc EXCEPT ![t] = "from_pretrained"]
              /\ UNCHANGED <<ret, loadedOk, lock, tpath>>
         ELSE /\ Return(t, "ok")
              /\ lock' = Free
    /\ UNCHANGED <<keyVars, proxyVars, imgVars, jobVars, usageVars, taskVars, DIFFUSERS_AVAILABLE, pipeline, got, calls, sawFail,
                   constructions, failedCat, overlapAll>>

\* lines 61-65 with the except clauses of 68-73.
FromPretrained(t) ==
    /\ tpc[t] = "from_pretrained"
    /\ constructions' = constructions + 1
    /\ \E r \in ConstructionResults :
         IF r = "ok"
           THEN /\ pipeline' = from_pretrained(tpath[t])
                /\ tpc' = [tpc EXCEPT ![t] = "to"]
                /\ UNCHANGED <<ret, loadedOk, lock, failedCat, tpath>>
           ELSE /\ pipeline' = pipeline_after_failed_from_pretrained(pipeline)
                /\ Return(t, r)
                /\ lock' = Free
                /\ failedCat' = IF failedCat = None THEN r ELSE failedCat
    /\ UNCHANGED <<keyVars, proxyVars, imgVars, jobVars, usageVars, taskVars, DIFFUSERS_AVAILABLE, got, calls, sawFail, overlapAll>>

\* line 66 with the except clauses of 68-73.
ToDevice(t) ==
    /\ tpc[t] = "to"
    /\ \E r \in ConstructionResults :
         IF r = "ok"
           THEN /\ pipeline' = to_device(pipeline)
                /\ Return(t, "ok")
                /\ UNCHANGED failedCat
           ELSE /\ pipeline' = pipeline_after_failed_to(pipeline)
                /\ Return(t, r)
                /\ failedCat' = IF failedCat = None THEN r ELSE failedCat
    /\ lock' = Free
    /\ UNCHANGED <<keyVars, proxyVars, imgVars, jobVars, usageVars, taskVars, DIFFUSERS_AVAILABLE, got, calls, sawFail, constructions,
                   overlapAll>>

\* A caller of get_pipeline (lines 75-79).
GetPipeline(t) ==
    /\ tpc[t] = "idle"
    /\ got # get_pipeline
    /\ got' = get_pipeline
    /\ UNCHANGED <<keyVars, proxyVars, imgVars, jobVars, usageVars, taskVars, DIFFUSERS_AVAILABLE, pipeline, lock, tpc, tpath, ret, calls, sawFail,
                   constructions, failedCat, loadedOk, overlapAll>>

InitPipeline ==
    /\ DIFFUSERS_AVAILABLE \in BOOLEAN
    /\ pipeline = NoPipeline
    /\ lock = Free
    /\ tpc = [t \in Threads |-> "idle"]
    /\ tpath = [t \in Threads |-> None]
    /\ ret = [t \in Threads |-> None]
    /\ got = NotCalled
    /\ calls = 0
    /\ sawFail = [t \in Threads |-> FALSE]
    /\ constructions = 0
    /\ failedCat = None
    /\ loadedOk = FALSE
    /\ overlapAll = TRUE

NextPipeline ==
    \E t \in Threads :
        \/ \E path \in ModelPaths : CallLoad(t, path)
        \/ FastCheck(t)
        \/ Acquire(t)
        \/ Recheck(t)
        \/ FromPretrained(t)
        \/ ToDevice(t)
        \/ GetPipeline(t)

-----------------------------------------------------------------------------
(* KeysManager and receive_api_keys (src/src/api_keys.py) *)

Credentials == {"k1", "k2", "k3"}

Range(f) == {f[i] : i \in DOMAIN f}

KeyLists == UNION {[1..n -> Credentials] : n \in 0..MaxKeyListLen}

\* A POST /api-keys body after base64 decoding: whether the signature
\* verifies, what json.loads(data) gives, and the value under "keys".
\* keys_kind "iterable" is a list of strings (a JSON string behaves as the
\* list of its characters under set()); "unhashable" is a list holding a
\* nested list or object; "scalar" a number or boolean.
MkPayload(sig, dk, kk, l) ==
    [sig_ok |-> sig, data_kind |-> dk, keys_kind |-> kk, keys_list |-> l]

Payloads ==
    {MkPayload(FALSE, "object", "iterable", l) : l \in {<<>>, <<"k1">>}}
      \cup {MkPayload(TRUE, dk, "missing", <<>>) : dk \in {"invalid_json", "not_object"}}
      \cup {MkPayload(TRUE, "object", kk, <<>>) :
                kk \in {"missing", "null", "scalar", "unhashable"}}
      \cup {MkPayload(TRUE, "object", "iterable", l) : l \in KeyLists}

\* verify_signed_payload (cryptography.py:10-30): raises unless the
\* signature verifies and the data parses as JSON.
verify_signed_payload(p) ==
    IF p.sig_ok /\ p.data_kind # "invalid_json" THEN "data" ELSE "raise"

\* decrypted_data.get("keys", []) (api_keys.py:45): AttributeError unless the
\* decoded document is an object; [] when the key is missing.
get_keys(p) ==
    IF p.data_kind # "object" THEN [raised |-> TRUE, kind |-> "none", list |-> <<>>]
    ELSE IF p.keys_kind = "missing" THEN [raised |-> FALSE, kind |-> "iterable", list |-> <<>>]
    ELSE [raised |-> FALSE, kind |-> p.keys_kind, list |-> p.keys_list]

\* KeysManager() on the existing singleton (api_keys.py:11-18): __new__
\* returns the instance and __init__ runs again; "initialized" is never set,
\* so the guard of line 17 is always true and self.keys = set() runs.
KeysManager_init_guarded(ks) == ks

KeysManager_init(ks) == {}

\* KeysManager.add_keys (api_keys.py:20-21).
add_keys(ks, new) == ks \cup new

\* KeysManager.key_exists (api_keys.py:23-24).  The first variant is a
\* manager that knows every key.
key_exists_any(k) == TRUE

key_exists(k) == k \in keys

\* The key list a payload delivers when the update succeeds.
Delivered(p) == Range(get_keys(p).list)

\* No receive_api_keys call is in progress.
NoCall == [pc |-> "idle", kind |-> "none", elems |-> {}]

\* Whether receive_api_keys suspends between KeysManager() (line 48) and
\* add_keys (line 49).  Lines 40-51 hold no await, so the coroutine keeps
\* the event loop from its first statement to its return; the first variant
\* is a handler that awaits between the two lines.
receive_api_keys_awaits_variant == TRUE

receive_api_keys_awaits == FALSE

\* The event loop can run another coroutine: none is in the middle of a
\* stretch of code without await (the image handlers of image_routes.py
\* have no await at all).
LoopFree ==
    /\ kcall.pc = "idle" \/ receive_api_keys_awaits
    /\ ipc = "idle"

\* Lines 49-54 on the set left by line 48 and the local variable keys:
\* set(keys) raises TypeError unless keys is iterable with hashable items.
add_keys_or_raise(ks, c) ==
    IF c.kind # "iterable"
      THEN [keys |-> ks, status |-> 400]
      ELSE [keys |-> add_keys(ks, c.elems), status |-> 200]

\* Lines 40-48: verify_signed_payload, .get("keys", []) and KeysManager().
\* A payload rejected by line 42 or 45 ends the handler here with 400.
ReceiveApiKeys(p) ==
    /\ serving
    /\ kcall.pc = "idle"
    /\ LoopFree
    /\ LET k == get_keys(p) IN
         IF verify_signed_payload(p) = "raise" \/ k.raised
           THEN /\ upd' = [status |-> 400, before |-> keys, delivered |-> Delivered(p)]
                /\ UNCHANGED <<keys, kcall>>
           ELSE /\ keys' = KeysManager_init(keys)
                /\ kcall' = [pc |-> "add", kind |-> k.kind, elems |-> Range(k.list)]
                /\ upd' = [status |-> 0, before |-> keys, delivered |-> Delivered(p)]
    /\ UNCHANGED everOk
    /\ UNCHANGED <<pipeVars, proxyVars, imgVars, jobVars, usageVars, taskVars>>

\* Lines 49-54: keys_manager.add_keys(set(keys)) and the response.
AddKeys ==
    /\ kcall.pc = "add"
    /\ LET r == add_keys_or_raise(keys, kcall) IN
         /\ keys' = r.keys
         /\ upd' = [upd EXCEPT !.status = r.status]
         /\ everOk' = (everOk \/ r.status = 200)
    /\ kcall' = NoCall
    /\ UNCHANGED <<pipeVars, proxyVars, imgVars, jobVars, usageVars, taskVars>>

NoUpdate == [status |-> 0, before |-> {}, delivered |-> {}]

\* The module-level KeysManager() calls of proxy.py:17, server.py:11 and
\* image_routes.py:17 have run: the set is empty.
InitKeys ==
    /\ keys = {}
    /\ upd = NoUpdate
    /\ kcall = NoCall
    /\ everOk = FALSE

NextKeys ==
    \/ \E p \in Payloads : ReceiveApiKeys(p)
    \/ AddKeys

-----------------------------------------------------------------------------
-----------------------------------------------------------------------------
(* Usage extraction (src/src/usage.py) *)

\* Usage(input_tokens, output_tokens, cached_tokens=0), or the exception an
\* extractor raises.
Usage(i, o) == [ok |-> TRUE, input_tokens |-> i, output_tokens |-> o, cached_tokens |-> 0]
ExtractionError == [ok |-> FALSE, input_tokens |-> 0, output_tokens |-> 0, cached_tokens |-> 0]

ChatFamily == {"v1/chat/completions", "v1/completions"}

\* A JSON member as .get(name, 0) sees it: absent, null or a number.
MissingF == [k |-> "missing", n |-> 0]
NullF == [k |-> "null", n |-> 0]
IntF(n) == [k |-> "int", n |-> n]

\* int(x.get(name, 0)): the default 0 when absent, TypeError on null.
int_get(f) ==
    IF f.k = "null" THEN [raised |-> TRUE, n |-> 0]
    ELSE IF f.k = "missing" THEN [raised |-> FALSE, n |-> 0]
    ELSE [raised |-> FALSE, n |-> f.n]

\* What a response body holds: json is "invalid" (json.loads raises),
\* "array" (valid JSON that is no object) or "object"; usage is "missing",
\* "null" or "object" (then prompt_tokens / completion_tokens are its
\* members); tokens_evaluated / tokens_predicted are top-level members.
MkDoc(j, u, pt, ct, te, tp) ==
    [json |-> j, usage |-> u, prompt_tokens |-> pt, completion_tokens |-> ct,
     tokens_evaluated |-> te, tokens_predicted |-> tp]

NoDoc == MkDoc("none", "missing", MissingF, MissingF, MissingF, MissingF)

Bodies ==
    { MkDoc("invalid", "missing", MissingF, MissingF, MissingF, MissingF),
      MkDoc("array", "missing", MissingF, MissingF, MissingF, MissingF),
      MkDoc("object", "missing", MissingF, MissingF, MissingF, MissingF),
      MkDoc("object", "null", MissingF, MissingF, MissingF, MissingF),
      MkDoc("object", "object", IntF(12), IntF(34), MissingF, MissingF),
      MkDoc("object", "object", MissingF, IntF(34), MissingF, MissingF),
      MkDoc("object", "object", IntF(12), NullF, MissingF, MissingF),
      MkDoc("object", "missing", MissingF, MissingF, IntF(3), IntF(4)) }

\* extract_usage_info (usage.py:69-92) on the parsed document.
extract_usage_info(data, endpoint) ==
    IF endpoint \in ChatFamily
      THEN IF data.json # "object" \/ data.usage = "null"
             THEN ExtractionError   \* AttributeError: no .get
             ELSE LET u == IF data.usage = "missing"
                             THEN [p |-> MissingF, c |-> MissingF]
                             ELSE [p |-> data.prompt_tokens, c |-> data.completion_tokens]
                      i == int_get(u.p)
                      o == int_get(u.c)
                  IN IF i.raised \/ o.raised THEN ExtractionError ELSE Usage(i.n, o.n)
    ELSE IF endpoint = "completions"
      THEN IF data.json # "object"
             THEN ExtractionError
             ELSE LET i == int_get(data.tokens_evaluated)
                      o == int_get(data.tokens_predicted)
                  IN IF i.raised \/ o.raised THEN ExtractionError ELSE Usage(i.n, o.n)
    ELSE ExtractionError            \* ValueError("Can't extract usage metrics")

\* Streamed text is a sequence of lexical pieces:
\*   "d"  text holding none of the pieces below      "nl" a line break
\*   "u"  "usage":        "k"  another key and its colon
\*   "{" "}" ","          "p"  "prompt_tokens": 5    "c"  "completion_tokens": 7
\*   "te" tokens_evaluated: 3      "tp" tokens_predicted: 4
\*   "t"  "total_tokens": 12
Min(S) == CHOOSE x \in S : \A y \in S : x <= y

\* A place where r'"usage"\s*:\s*({.*?})' matches: "usage": then an opening
\* brace, then a closing brace on the same line ('.' matches no line break).
IsUsageStart(text, i) ==
    /\ i + 1 <= Len(text)
    /\ text[i] = "u"
    /\ text[i + 1] = "{"
    /\ \E j \in (i + 2)..Len(text) :
         /\ text[j] = "}"
         /\ \A m \in (i + 2)..(j - 1) : text[m] # "nl"

\* re.search: the leftmost match, 0 when there is none.
usage_match(text) ==
    LET S == {i \in 1..Len(text) : IsUsageStart(text, i)}
    IN IF S = {} THEN 0 ELSE Min(S)

\* group(1) of the match at i, without its braces: '.*?' is lazy, so the
\* group ends at the first closing brace.
usage_group(text, i) ==
    LET j == Min({m \in (i + 2)..Len(text) : text[m] = "}"})
    IN SubSeq(text, i + 2, j - 1)

\* json.loads of the group succeeds when it is a flat object: the two
\* counters or a further numeric member ("t"), separated by commas.
group_is_json(inner) ==
    \/ inner = <<>>
    \/ /\ Len(inner) % 2 = 1
       /\ \A m \in 1..Len(inner) :
            IF m % 2 = 1 THEN inner[m] \in {"p", "c", "t"} ELSE inner[m] = ","

\* extract_usage_info_from_raw (usage.py:25-66).
extract_usage_info_from_raw(text, endpoint) ==
    IF endpoint \in ChatFamily
      THEN LET i == usage_match(text) IN
           IF i = 0 THEN ExtractionError   \* falls through to the raise of line 66
           ELSE LET inner == usage_group(text, i) IN
                IF ~group_is_json(inner) THEN ExtractionError
                ELSE Usage(IF \E m \in 1..Len(inner) : inner[m] = "p" THEN 5 ELSE 0,
                           IF \E m \in 1..Len(inner) : inner[m] = "c" THEN 7 ELSE 0)
    ELSE IF endpoint = "completions"
      THEN Usage(IF \E m \in 1..Len(text) : text[m] = "te" THEN 3 ELSE 0,
                 IF \E m \in 1..Len(text) : text[m] = "tp" THEN 4 ELSE 0)
    ELSE ExtractionError

-----------------------------------------------------------------------------
(* proxy_request (src/src/proxy.py:66-162) *)

\* config.MODEL_CONFIGS (config.py:26-63): one text model and two image
\* models, each with its allowed_paths.
ModelIds == {"llm", "zimage", "zturbo"}

MODEL_CONFIGS ==
    [m \in ModelIds |->
        IF m = "llm"
          THEN [type |-> "text", local_path |-> None,
                allowed_paths |-> {"v1/chat/completions", "completions", "v1/embeddings"}]
        ELSE IF m = "zimage"
          THEN [type |-> "image", local_path |-> "pathA",
                allowed_paths |-> {"v1/images/generations", "v1/chat/completions"}]
          ELSE [type |-> "image", local_path |-> "pathB",
                allowed_paths |-> {"sdapi/v1/txt2img"}]]

RequestTokens == {"k1"}
RequestModels == ModelIds \cup {"unknown"}
RequestPaths == {"v1/chat/completions", "completions", "v1/embeddings",
                 "v1/images/generations"}

\* The detail of an HTTPException: the text written in the code and, where
\* the code formats str(e) into it, the text of the exception caught.
Detail(text, exc) == [text |-> text, exc |-> exc]
NoDetail == Detail(None, None)

\* str(e) of an exception raised by a library (httpx, torch, diffusers, json).
RawExceptionText == "str(e)"

\* The detail proxy_request gives each status (lines 76, 82, 87, 90, 162).
proxy_detail(status, model, path) ==
    IF status = 401 THEN Detail("Invalid API key", None)
    ELSE IF status = 404 THEN Detail("Model not found", None)
    ELSE IF status = 400 /\ MODEL_CONFIGS[model].type # "text"
      THEN Detail("This endpoint is only for text models", None)
    ELSE IF status = 400 THEN Detail("Invalid inference path", None)
    ELSE Detail("Error forwarding request: ", RawExceptionText)

\* Lines 74-90: the status of the HTTPException raised, 0 when every check
\* passes.  The first variant leaves out the allowed_paths test.
validate_without_path_check(token, model, path) ==
    IF ~key_exists(token) THEN 401
    ELSE IF model \notin DOMAIN MODEL_CONFIGS THEN 404
    ELSE IF MODEL_CONFIGS[model].type # "text" THEN 400
    ELSE 0

validate(token, model, path) ==
    IF ~key_exists(token) THEN 401
    ELSE IF model \notin DOMAIN MODEL_CONFIGS THEN 404
    ELSE IF MODEL_CONFIGS[model].type # "text" THEN 400
    ELSE IF path \notin MODEL_CONFIGS[model].allowed_paths THEN 400
    ELSE 0

\* What holds of a request when it is checked, stated on the configuration
\* and the credential set directly.
Facts(token, model, path) ==
    [key |-> token \in keys,
     model |-> model \in ModelIds,
     text |-> model \in ModelIds /\ MODEL_CONFIGS[model].type = "text",
     path |-> model \in ModelIds /\ path \in MODEL_CONFIGS[model].allowed_paths]

\* Chunk sequences an upstream may stream (response.aiter_bytes), each chunk
\* a piece of text.
UpstreamStreams ==
    { <<>>,
      << <<"d", "nl">>, <<"d", "nl">> >>,
      << <<"d", "nl">>, <<"d", "u", "{", "p", ",", "c", "}", "nl">> >>,
      << <<"u", "{", "p", ",", "c", "}", "nl">>, <<"d", "nl">> >>,
      << <<"u", "{", "p">>, <<",", "c", "}">> >>,
      << <<"u", "{", "p", ",", "k", "{", "d", "}", ",", "c", "}", "}">> >>,
      << <<"te", "nl">>, <<"tp">> >> }

EventStream == "text/event-stream"
BufferedTypes == {"application/json", "text/event-stream; charset=utf-8"}

\* What client.send can return (proxy.py:105).
UpstreamResponses ==
    {[status |-> st, content_type |-> ct, body |-> b, chunks |-> <<>>] :
        st \in {200, 503}, ct \in BufferedTypes, b \in Bodies}
      \cup {[status |-> st, content_type |-> EventStream, body |-> NoDoc, chunks |-> cs] :
        st \in {200, 503}, cs \in UpstreamStreams}

\* response.raise_for_status() (proxy.py:106) raises unless the status is 2xx.
raise_for_status(status) == ~(status \in 200..299)

\* Line 108.
is_streaming_response(content_type) == content_type = "text/event-stream"

NoReq == [token |-> None, model |-> None, path |-> None]
NoChecked == [key |-> FALSE, model |-> FALSE, text |-> FALSE, path |-> FALSE]
NoUp == [state |-> "none", status |-> 0, content_type |-> None, body |-> NoDoc]
NoRelay == [end |-> "none", raised |-> FALSE]
NoResp == [kind |-> "none", status |-> 0, content_type |-> None, body |-> NoDoc,
           detail |-> NoDetail]

\* raise HTTPException(status_code=status, ...).
HTTPException(status, detail) ==
    [kind |-> "error", status |-> status, content_type |-> None, body |-> NoDoc,
     detail |-> detail]

\* The except clause of lines 160-162.
ForwardingError == HTTPException(500, proxy_detail(500, None, None))

\* UsageFullData(**user_context, **usage) (proxy.py:92, 123-126, 145-148).
UsageFullData(r, u) ==
    [key |-> r.token, model_name |-> r.model, endpoint |-> r.path,
     input_tokens |-> u.input_tokens, output_tokens |-> u.output_tokens,
     cached_tokens |-> u.cached_tokens]

\* The try of lines 121-129 / 144-151: the usage events added to
\* background_tasks; an extraction failure is printed and adds none.
add_usage_task(r, u) == IF u.ok THEN <<UsageFullData(r, u)>> ELSE <<>>

\* The finally block of generate_chunks (lines 118-129) after aclose: it
\* runs the same on every way out of the loop.  The first variant drops the
\* partial buffer unless the stream ran to completion.
relay_finally_complete_only(cause, buf, r) ==
    IF cause = "complete"
      THEN add_usage_task(r, extract_usage_info_from_raw(buf, r.path))
      ELSE <<>>

relay_finally(cause, buf, r) ==
    add_usage_task(r, extract_usage_info_from_raw(buf, r.path))

\* Lines 74-92: no await, one step.
Arrive(token, model, path) ==
    /\ serving
    /\ LoopFree
    /\ rpc = "idle"
    /\ req' = [token |-> token, model |-> model, path |-> path]
    /\ checked' = Facts(token, model, path)
    /\ LET st == validate(token, model, path) IN
         IF st # 0
           THEN rpc' = "done" /\ resp' = HTTPException(st, proxy_detail(st, model, path))
           ELSE rpc' = "body" /\ UNCHANGED resp
    /\ UNCHANGED <<sent, up, rest, pending, buffer, relay, scheduled>>
    /\ UNCHANGED <<pipeVars, keyVars, imgVars, jobVars, usageVars, taskVars>>

\* Line 96 returns; lines 99-105 build the request and call client.send.
ReadBody ==
    /\ LoopFree
    /\ rpc = "body"
    /\ rpc' = "send"
    /\ sent' = TRUE
    /\ UNCHANGED <<req, checked, up, rest, pending, buffer, relay, scheduled, resp>>
    /\ UNCHANGED <<pipeVars, keyVars, imgVars, jobVars, usageVars, taskVars>>

\* client.send raises (connection error, timeout): line 160.
SendFails ==
    /\ LoopFree
    /\ rpc = "send"
    /\ rpc' = "done"
    /\ resp' = ForwardingError
    /\ UNCHANGED <<req, checked, sent, up, rest, pending, buffer, relay, scheduled>>
    /\ UNCHANGED <<pipeVars, keyVars, imgVars, jobVars, usageVars, taskVars>>

\* client.send returns a response (line 105); lines 106-110 or 106-138 run
\* up to the next await.
SendReturns(r) ==
    /\ LoopFree
    /\ rpc = "send"
    /\ up' = [state |-> "open", status |-> r.status, content_type |-> r.content_type,
              body |-> r.body]
    /\ IF raise_for_status(r.status)
         THEN /\ rpc' = "done"
              /\ resp' = ForwardingError
              /\ UNCHANGED rest
         ELSE IF is_streaming_response(r.content_type)
           THEN /\ rpc' = "stream"
                /\ rest' = r.chunks
                /\ resp' = [kind |-> "stream", status |-> r.status,
                            content_type |-> r.content_type, body |-> NoDoc,
                            detail |-> NoDetail]
           ELSE /\ rpc' = "read"
                /\ UNCHANGED <<rest, resp>>
    /\ UNCHANGED <<req, checked, sent, pending, buffer, relay, scheduled>>
    /\ UNCHANGED <<pipeVars, keyVars, imgVars, jobVars, usageVars, taskVars>>

\* await response.aread() (line 138): the body arrives, or reading raises.
ARead ==
    /\ LoopFree
    /\ rpc = "read"
    /\ \E ok \in BOOLEAN :
         IF ok THEN rpc' = "close" /\ UNCHANGED resp
               ELSE rpc' = "done" /\ resp' = ForwardingError
    /\ UNCHANGED <<req, checked, sent, up, rest, pending, buffer, relay, scheduled>>
    /\ UNCHANGED <<pipeVars, keyVars, imgVars, jobVars, usageVars, taskVars>>

\* Lines 139-158: aclose, json.loads, the usage try, the Response.
CloseAndRespond ==
    /\ LoopFree
    /\ rpc = "close"
    /\ up' = [up EXCEPT !.state = "closed"]
    /\ IF up.body.json = "invalid"
         THEN /\ resp' = ForwardingError   \* json.loads raises, line 160
              /\ UNCHANGED scheduled
         ELSE /\ scheduled' = add_usage_task(req, extract_usage_info(up.body, req.path))
              /\ resp' = [kind |-> "buffered", status |-> up.status,
                          content_type |-> up.content_type, body |-> up.body,
                          detail |-> NoDetail]
    /\ rpc' = "done"
    /\ UNCHANGED <<req, checked, sent, rest, pending, buffer, relay>>
    /\ UNCHANGED <<pipeVars, keyVars, imgVars, jobVars, usageVars, taskVars>>

\* generate_chunks, lines 115-116: the next chunk arrives and is yielded.
StreamChunk ==
    /\ LoopFree
    /\ rpc = "stream"
    /\ rest # <<>>
    /\ pending' = Head(rest)
    /\ rest' = Tail(rest)
    /\ rpc' = "yielded"
    /\ UNCHANGED <<req, checked, sent, up, buffer, relay, scheduled, resp>>
    /\ UNCHANGED <<pipeVars, keyVars, imgVars, jobVars, usageVars, taskVars>>

\* full_response_buffer += chunk (line 117).  The first variant keeps the
\* last chunk only.
shadow_append_last_only(buf, chunk) == chunk

shadow_append(buf, chunk) == buf \o chunk

\* Line 117: the generator is resumed and appends the chunk.
Resume ==
    /\ LoopFree
    /\ rpc = "yielded"
    /\ buffer' = shadow_append(buffer, pending)
    /\ pending' = <<>>
    /\ rpc' = "stream"
    /\ UNCHANGED <<req, checked, sent, up, rest, relay, scheduled, resp>>
    /\ UNCHANGED <<pipeVars, keyVars, imgVars, jobVars, usageVars, taskVars>>

\* The way out of the loop of lines 115-117 and the finally of 118-129.
Finally(cause) ==
    /\ LoopFree
    /\ up' = [up EXCEPT !.state = "closed"]
    /\ scheduled' = relay_finally(cause, buffer, req)
    /\ relay' = [end |-> cause, raised |-> (cause = "upstream_error")]
    /\ rpc' = "done"
    /\ UNCHANGED <<req, checked, sent, rest, pending, buffer, resp>>
    /\ UNCHANGED <<pipeVars, keyVars, imgVars, jobVars, usageVars, taskVars>>

\* The upstream stream ends.
StreamEnd == rpc = "stream" /\ rest = <<>> /\ Finally("complete")

\* aiter_bytes raises while the next chunk is awaited; the exception leaves
\* the generator after the finally block.
UpstreamBreaks == rpc = "stream" /\ Finally("upstream_error")

\* The client disconnects: the generator is closed or cancelled where it is
\* suspended, at the yield or in the await of the next chunk.
ClientDisconnect == rpc \in {"stream", "yielded"} /\ Finally("disconnect")

\* The answers client.post can meet (usage.py:17): a response with a
\* status, or an exception of httpx (connection refused, timeout).
PostOutcomes ==
    {[kind |-> "response", status |-> 200],
     [kind |-> "response", status |-> 500],
     [kind |-> "exception", status |-> 0]}

\* report_usage_event_task after its POST (usage.py:18-22): what it printed
\* and whether an exception leaves it.  The first variant has no except
\* clause.
report_usage_event_task_uncaught(o) ==
    [logged |-> IF o.kind = "response" /\ o.status # 200 THEN "status" ELSE None,
     raised |-> o.kind = "exception"]

report_usage_event_task(o) ==
    [logged |-> IF o.kind = "exception" THEN "exception"
                ELSE IF o.status # 200 THEN "status" ELSE None,
     raised |-> FALSE]

NoReport ==
    [pc |-> "idle", event |-> None, posts |-> 0, logged |-> None, raised |-> FALSE,
     response |-> NoResp]

\* Starlette runs the background task once the response has been sent:
\* report_usage_event_task up to await client.post (usage.py:11-17).
ReportPost ==
    /\ LoopFree
    /\ rpc = "done"
    /\ scheduled # <<>>
    /\ report.pc = "idle"
    /\ report' = [report EXCEPT !.pc = "posting", !.event = Head(scheduled),
                                !.posts = @ + 1, !.response = resp]
    /\ UNCHANGED proxyVars
    /\ UNCHANGED <<pipeVars, keyVars, imgVars, jobVars, usageVars>>

\* The POST completes and the task returns (usage.py:17-22).
ReportReturn(o) ==
    /\ LoopFree
    /\ report.pc = "posting"
    /\ report' = [report EXCEPT !.pc = "returned",
                                !.logged = report_usage_event_task(o).logged,
                                !.raised = report_usage_event_task(o).raised]
    /\ UNCHANGED proxyVars
    /\ UNCHANGED <<pipeVars, keyVars, imgVars, jobVars, usageVars>>

\* The next request.
NextRequest ==
    /\ LoopFree
    /\ rpc = "done"
    /\ report.pc # "posting"
    /\ report' = NoReport
    /\ rpc' = "idle"
    /\ req' = NoReq
    /\ checked' = NoChecked
    /\ sent' = FALSE
    /\ up' = NoUp
    /\ rest' = <<>>
    /\ pending' = <<>>
    /\ buffer' = <<>>
    /\ relay' = NoRelay
    /\ scheduled' = <<>>
    /\ resp' = NoResp
    /\ UNCHANGED <<pipeVars, keyVars, imgVars, jobVars, usageVars>>

InitProxy ==
    /\ report = NoReport
    /\ rpc = "idle"
    /\ req = NoReq
    /\ checked = NoChecked
    /\ sent = FALSE
    /\ up = NoUp
    /\ rest = <<>>
    /\ pending = <<>>
    /\ buffer = <<>>
    /\ relay = NoRelay
    /\ scheduled = <<>>
    /\ resp = NoResp

NextProxy ==
    \/ \E token \in RequestTokens, model \in RequestModels, path \in RequestPaths :
          Arrive(token, model, path)
    \/ ReadBody
    \/ SendFails
    \/ \E r \in UpstreamResponses : SendReturns(r)
    \/ ARead
    \/ CloseAndRespond
    \/ StreamChunk
    \/ Resume
    \/ StreamEnd
    \/ UpstreamBreaks
    \/ ClientDisconnect
    \/ ReportPost
    \/ \E o \in PostOutcomes : ReportReturn(o)
    \/ NextRequest

-----------------------------------------------------------------------------
(* Image endpoints (src/src/image_routes.py) *)

MAX_DIMENSION == 2048
MAX_STEPS == 50
MIN_STEPS == 1
DEFAULT_Z_IMAGE_TURBO_STEPS == 9

\* A float as a comparison sees it: a number, or NaN (json.loads accepts the
\* literal NaN and the float fields of the request models admit it).
Float(v) == [nan |-> FALSE, v |-> v]
NaN == [nan |-> TRUE, v |-> 0]

\* x < n and x >= n on a float: both false when x is NaN.
float_lt(x, n) == ~x.nan /\ x.v < n
float_ge(x, n) == ~x.nan /\ x.v >= n

\* str.strip() on the prompts used here.
strip(prompt) == IF prompt = " " THEN "" ELSE prompt

\* validate_prompt (lines 28-31): the detail of the 400 raised, None when
\* the prompt passes.
validate_prompt(prompt) ==
    IF prompt = "" \/ strip(prompt) = "" THEN "Prompt cannot be empty" ELSE None

\* validate_dimensions (lines 34-41).
validate_dimensions(width, height) ==
    IF width <= 0 \/ height <= 0 THEN "Width and height must be positive"
    ELSE IF width > MAX_DIMENSION \/ height > MAX_DIMENSION
      THEN "Width and height must not exceed 2048px"
    ELSE None

\* validate_steps (lines 44-49).
validate_steps(steps) ==
    IF steps < MIN_STEPS \/ steps > MAX_STEPS
      THEN "Steps must be between 1 and 50" ELSE None

\* validate_cfg_scale (lines 52-55).
validate_cfg_scale(cfg_scale) ==
    IF float_lt(cfg_scale, 0) THEN "cfg_scale must be non-negative" ELSE None

\* validate_model_and_endpoint (lines 58-77): the status raised, 0 when the
\* model configuration is returned.  The first variant looks the model up
\* before it tests the credential, the second leaves out the endpoint test
\* of lines 74-75.
validate_model_and_endpoint_any_path(model, endpoint, token) ==
    IF ~key_exists(token) THEN 401
    ELSE IF model \notin DOMAIN MODEL_CONFIGS THEN 404
    ELSE IF MODEL_CONFIGS[model].type # "image" THEN 400
    ELSE 0

validate_model_and_endpoint_model_first(model, endpoint, token) ==
    IF model \notin DOMAIN MODEL_CONFIGS THEN 404
    ELSE IF ~key_exists(token) THEN 401
    ELSE IF MODEL_CONFIGS[model].type # "image" THEN 400
    ELSE IF endpoint \notin MODEL_CONFIGS[model].allowed_paths THEN 400
    ELSE 0

validate_model_and_endpoint(model, endpoint, token) ==
    IF ~key_exists(token) THEN 401
    ELSE IF model \notin DOMAIN MODEL_CONFIGS THEN 404
    ELSE IF MODEL_CONFIGS[model].type # "image" THEN 400
    ELSE IF endpoint \notin MODEL_CONFIGS[model].allowed_paths THEN 400
    ELSE 0

\* The detail validate_model_and_endpoint gives each status (62, 66, 71, 75).
image_detail(status, model) ==
    IF status = 401 THEN Detail("Invalid API key", None)
    ELSE IF status = 404 THEN Detail("Model not found", None)
    ELSE IF MODEL_CONFIGS[model].type # "image"
      THEN Detail("Model is not an image model", None)
    ELSE Detail("Invalid endpoint for this model", None)

\* The two dialects and the endpoint each handler passes (lines 146, 211).
ImageDialects == {"openai", "a1111"}
Endpoint(dialect) ==
    IF dialect = "openai" THEN "v1/images/generations" ELSE "sdapi/v1/txt2img"

\* OpenAIImageRequest.size: "WxH" with integer parts, a string without
\* exactly one x ("one_part"), or two parts that are no integers ("not_int").
Size(form, w, h) == [form |-> form, w |-> w, h |-> h]

\* Lines 156-164: split("x"), the length test and map(int, parts).
parse_size(size) ==
    IF size.form = "WxH"
      THEN [ok |-> TRUE, width |-> size.w, height |-> size.h]
      ELSE [ok |-> FALSE, width |-> 0, height |-> 0]

\* An image request after pydantic has built OpenAIImageRequest or
\* A1111Request (lines 94-127).  n, response_format and size belong to the
\* first dialect, width, height, steps and cfg_scale to the second; the
\* fields of the other dialect hold their declared defaults.
MkImageRequest(dialect, token, model, prompt, n, fmt, size, width, height, steps, cfg) ==
    [dialect |-> dialect, token |-> token, model |-> model, prompt |-> prompt,
     n |-> n, response_format |-> fmt, size |-> size,
     width |-> width, height |-> height, steps |-> steps, cfg_scale |-> cfg]

Prompts == {"", " ", "cat"}
Dims == {<<512, 512>>, <<1, 2048>>, <<0, 512>>, <<2048, 0>>, <<2049, 1>>, <<512, 3000>>}
StepCounts == {0, 1, 50, 51}
CfgScales == {Float(-1), Float(0), NaN}
Sizes == {Size("one_part", 0, 0), Size("not_int", 0, 0)}
           \cup {Size("WxH", d[1], d[2]) : d \in Dims}

\* Every combination of parameters, sent to the image model that allows the
\* endpoint of the dialect.
OpenAIRequests ==
    {MkImageRequest("openai", t, "zimage", p, n, f, sz, 1024, 1024,
                    DEFAULT_Z_IMAGE_TURBO_STEPS, Float(0)) :
        t \in RequestTokens, p \in Prompts,
        n \in {1, 2}, f \in {"b64_json", "url"}, sz \in Sizes}

A1111Requests ==
    {MkImageRequest("a1111", t, "zturbo", p, 1, "b64_json", Size("WxH", 1024, 1024),
                    d[1], d[2], st, c) :
        t \in RequestTokens, p \in Prompts,
        d \in Dims, st \in StepCounts, c \in CfgScales}

\* One request per dialect, model and prompt, the other parameters at their
\* declared defaults.
DefaultImageRequests(prompts) ==
    {MkImageRequest(dl, t, m, p, 1, "b64_json", Size("WxH", 1024, 1024), 1024, 1024,
                    DEFAULT_Z_IMAGE_TURBO_STEPS, Float(0)) :
        dl \in ImageDialects, t \in RequestTokens, m \in RequestModels, p \in prompts}

ImageRequests == OpenAIRequests \cup A1111Requests \cup DefaultImageRequests({"", "cat"})

\* The parameter checks of generate_image_openai (lines 149-167) in their
\* order: the detail of the first 400 raised, None when all pass.
openai_params(r) ==
    IF r.n # 1 THEN "Only n=1 is supported"
    ELSE IF r.response_format # "b64_json" THEN "Only b64_json format is supported"
    ELSE IF ~parse_size(r.size).ok THEN "Invalid size format. Use WIDTHxHEIGHT"
    ELSE IF validate_prompt(r.prompt) # None THEN validate_prompt(r.prompt)
    ELSE validate_dimensions(parse_size(r.size).width, parse_size(r.size).height)

\* The parameter checks of generate_image_a1111 (lines 214-217).
a1111_params(r) ==
    IF validate_prompt(r.prompt) # None THEN validate_prompt(r.prompt)
    ELSE IF validate_dimensions(r.width, r.height) # None
      THEN validate_dimensions(r.width, r.height)
    ELSE IF validate_steps(r.steps) # None THEN validate_steps(r.steps)
    ELSE validate_cfg_scale(r.cfg_scale)

validate_params(r) == IF r.dialect = "openai" THEN openai_params(r) ELSE a1111_params(r)

\* The arguments of the generate_image call (lines 175-182, 225-233).
NoArgs == [prompt |-> None, width |-> 0, height |-> 0, steps |-> 0,
           guidance_scale |-> Float(0)]

generate_image_args(r) ==
    IF r.dialect = "openai"
      THEN [prompt |-> r.prompt, width |-> parse_size(r.size).width,
            height |-> parse_size(r.size).height,
            steps |-> DEFAULT_Z_IMAGE_TURBO_STEPS, guidance_scale |-> Float(0)]
      ELSE [prompt |-> r.prompt, width |-> r.width, height |-> r.height,
            steps |-> r.steps, guidance_scale |-> r.cfg_scale]

\* load_pipeline (image_generation.py:44-73) run by one caller without
\* interleaving, r1 and r2 the outcomes of from_pretrained and .to(): the
\* handle it leaves and the category of the RuntimeError raised, None when
\* it returns.
load_pipeline(p, path, r1, r2) ==
    IF ~DIFFUSERS_AVAILABLE THEN [pipeline |-> p, error |-> "deps"]
    ELSE IF p # NoPipeline THEN [pipeline |-> p, error |-> None]
    ELSE IF r1 # "ok"
      THEN [pipeline |-> pipeline_after_failed_from_pretrained(p), error |-> r1]
    ELSE IF r2 # "ok"
      THEN [pipeline |-> pipeline_after_failed_to(from_pretrained(path)), error |-> r2]
    ELSE [pipeline |-> to_device(from_pretrained(path)), error |-> None]

LoadOutcomes(p, path) ==
    {load_pipeline(p, path, r1, r2) : r1 \in ConstructionResults, r2 \in ConstructionResults}

\* str(e) of the RuntimeError load_pipeline raises (lines 47-50, 70, 73).
load_error(category) ==
    IF category = "deps" THEN Detail("Image generation dependencies not installed.", None)
    ELSE IF category = "oom"
      THEN Detail("GPU out of memory. Cannot load image generation model.", None)
    ELSE Detail("Failed to load image generation model: ", RawExceptionText)

\* generate_image (image_generation.py:114-153) returns the image, turns
\* torch.cuda.OutOfMemoryError into its own RuntimeError ("oom"), and lets
\* any other exception through: a RuntimeError of torch ("runtime") or
\* another exception ("other").
GenerationResults == {"ok", "oom", "runtime", "other"}

\* The detail of the 500 the handlers raise for a failed generation
\* (lines 192-198, 252-258).
generation_error(g) ==
    IF g = "oom" THEN Detail("GPU out of memory during image generation.", None)
    ELSE IF g = "runtime" THEN Detail("", RawExceptionText)
    ELSE Detail("Error generating image: ", RawExceptionText)

\* What holds of an image request when it is checked.
ImageFacts(r) ==
    [key |-> r.token \in keys,
     model |-> r.model \in ModelIds,
     image |-> r.model \in ModelIds /\ MODEL_CONFIGS[r.model].type = "image",
     path |-> r.model \in ModelIds /\ Endpoint(r.dialect) \in MODEL_CONFIGS[r.model].allowed_paths]

NoIReq == MkImageRequest(None, None, None, None, 0, None, Size(None, 0, 0), 0, 0, 0, Float(0))
NoIChecked == [key |-> FALSE, model |-> FALSE, image |-> FALSE, path |-> FALSE]
NoICalls == [load |-> FALSE, generate |-> FALSE, args |-> NoArgs]
NoIResp == [status |-> 0, detail |-> NoDetail]

\* track_usage (lines 80-90): a usage event with zero tokens.  The first
\* variant adds the task twice.
track_usage_twice(r) ==
    LET e == UsageFullData([token |-> r.token, model |-> r.model,
                            path |-> Endpoint(r.dialect)], Usage(0, 0))
    IN <<e, e>>

track_usage(r) ==
    <<UsageFullData([token |-> r.token, model |-> r.model, path |-> Endpoint(r.dialect)],
                    Usage(0, 0))>>

\* The handler ends by raising HTTPException(status, detail) before
\* load_pipeline is reached.
ImageReject(status, detail) ==
    /\ iresp' = [status |-> status, detail |-> detail]
    /\ icalls' = NoICalls
    /\ ischeduled' = <<>>
    /\ UNCHANGED pipeline

\* generate_image_openai (lines 137-198) / generate_image_a1111 (202-258):
\* the handler has no await, so it runs from its first line to its return
\* or raise as one stretch on the event loop.
ImageHandle(r) ==
    /\ serving
    /\ LoopFree
    /\ ipc' = "handled"
    /\ ireq' = r
    /\ ichecked' = ImageFacts(r)
    /\ LET st == validate_model_and_endpoint(r.model, Endpoint(r.dialect), r.token) IN
         IF st # 0 THEN ImageReject(st, image_detail(st, r.model))
         ELSE IF validate_params(r) # None
           THEN ImageReject(400, Detail(validate_params(r), None))
         ELSE \E l \in LoadOutcomes(pipeline, MODEL_CONFIGS[r.model].local_path) :
           /\ pipeline' = l.pipeline
           /\ IF l.error # None
                THEN /\ iresp' = [status |-> 500, detail |-> load_error(l.error)]
                     /\ icalls' = [load |-> TRUE, generate |-> FALSE, args |-> NoArgs]
                     /\ ischeduled' = <<>>
                ELSE \E g \in GenerationResults :
                     /\ icalls' = [load |-> TRUE, generate |-> TRUE,
                                   args |-> generate_image_args(r)]
                     /\ IF g = "ok"
                          THEN /\ iresp' = [status |-> 200, detail |-> NoDetail]
                               /\ ischeduled' = track_usage(r)
                          ELSE /\ iresp' = [status |-> 500, detail |-> generation_error(g)]
                               /\ ischeduled' = <<>>
    /\ UNCHANGED <<DIFFUSERS_AVAILABLE, lock, tpc, tpath, ret, got, calls, sawFail,
                   constructions, failedCat, loadedOk, overlapAll>>
    /\ UNCHANGED <<keyVars, proxyVars, jobVars, usageVars, taskVars>>

\* The response has been sent: the event loop is free again.
ImageRespond ==
    /\ ipc = "handled"
    /\ ipc' = "idle"
    /\ ireq' = NoIReq
    /\ ichecked' = NoIChecked
    /\ icalls' = NoICalls
    /\ ischeduled' = <<>>
    /\ iresp' = NoIResp
    /\ UNCHANGED <<pipeVars, keyVars, proxyVars, jobVars, usageVars, taskVars>>

InitImage ==
    /\ ipc = "idle"
    /\ ireq = NoIReq
    /\ ichecked = NoIChecked
    /\ icalls = NoICalls
    /\ ischeduled = <<>>
    /\ iresp = NoIResp

NextImage ==
    \/ \E r \in ImageRequests : ImageHandle(r)
    \/ ImageRespond

-----------------------------------------------------------------------------
(* Both extractors on one payload (src/src/usage.py:25-92) *)

\* A response payload of the chat family: whether it has a "usage" member
\* (absent, null or an object), which counters the object holds, a further
\* member of the object (none, a number, or a nested object) placed before
\* or after the counters, and whether text with the word usage precedes.
MkUsagePayload(u, p, c, extra, first, prefix) ==
    [usage |-> u, p |-> p, c |-> c, extra |-> extra, extra_first |-> first,
     prefix |-> prefix]

UsagePayloads ==
    {MkUsagePayload(u, FALSE, FALSE, "none", FALSE, pre) :
        u \in {"absent", "null"}, pre \in BOOLEAN}
      \cup {MkUsagePayload("object", p, c, "none", FALSE, pre) :
        p \in BOOLEAN, c \in BOOLEAN, pre \in BOOLEAN}
      \cup {MkUsagePayload("object", p, c, extra, first, pre) :
        p \in BOOLEAN, c \in BOOLEAN, extra \in {"scalar", "nested"},
        first \in BOOLEAN, pre \in BOOLEAN}

NoPayload == MkUsagePayload(None, FALSE, FALSE, "none", FALSE, FALSE)

\* The document json.loads gives for the payload (the data argument of
\* extract_usage_info): the counters hold 5 and 7.
payload_document(pl) ==
    MkDoc("object",
          IF pl.usage = "absent" THEN "missing" ELSE pl.usage,
          IF pl.p THEN IntF(5) ELSE MissingF,
          IF pl.c THEN IntF(7) ELSE MissingF,
          MissingF, MissingF)

RECURSIVE JoinMembers(_)
JoinMembers(ms) ==
    IF ms = <<>> THEN <<>>
    ELSE IF Len(ms) = 1 THEN ms[1]
    ELSE ms[1] \o <<",">> \o JoinMembers(Tail(ms))

\* The bytes of the payload as text (the raw_data argument of
\* extract_usage_info_from_raw, decoded): "t" is a further numeric member.
payload_text(pl) ==
    LET counters == (IF pl.p THEN << <<"p">> >> ELSE <<>>)
                      \o (IF pl.c THEN << <<"c">> >> ELSE <<>>)
        further == IF pl.extra = "scalar" THEN << <<"t">> >>
                   ELSE IF pl.extra = "nested" THEN << <<"k", "{", "d", "}">> >>
                   ELSE <<>>
        members == IF pl.extra_first THEN further \o counters ELSE counters \o further
        usage == IF pl.usage = "absent" THEN <<>>
                 ELSE IF pl.usage = "null" THEN <<",", "u", "d">>
                 ELSE <<",", "u", "{">> \o JoinMembers(members) \o <<"}">>
    IN (IF pl.prefix THEN <<"d", "nl">> ELSE <<>>)
         \o <<"{", "k", "d">> \o usage \o <<"}">>

NotRun == [ok |-> FALSE, input_tokens |-> -1, output_tokens |-> -1, cached_tokens |-> 0]

\* extract_usage_info(data, context) on the parsed document.
ExtractJson(pl, endpoint) ==
    /\ ujson = NotRun
    /\ upayload = NoPayload \/ (upayload = pl /\ uendpoint = endpoint)
    /\ upayload' = pl
    /\ uendpoint' = endpoint
    /\ ujson' = extract_usage_info(payload_document(pl), endpoint)
    /\ UNCHANGED uraw
    /\ UNCHANGED <<pipeVars, keyVars, proxyVars, imgVars, jobVars, taskVars>>

\* extract_usage_info_from_raw(raw_data, context) on the bytes.
ExtractRaw(pl, endpoint) ==
    /\ uraw = NotRun
    /\ upayload = NoPayload \/ (upayload = pl /\ uendpoint = endpoint)
    /\ upayload' = pl
    /\ uendpoint' = endpoint
    /\ uraw' = extract_usage_info_from_raw(payload_text(pl), endpoint)
    /\ UNCHANGED ujson
    /\ UNCHANGED <<pipeVars, keyVars, proxyVars, imgVars, jobVars, taskVars>>

\* The next payload.
NextPayload ==
    /\ ujson # NotRun /\ uraw # NotRun
    /\ upayload' = NoPayload
    /\ uendpoint' = None
    /\ ujson' = NotRun
    /\ uraw' = NotRun
    /\ UNCHANGED <<pipeVars, keyVars, proxyVars, imgVars, jobVars, taskVars>>

InitUsage ==
    /\ upayload = NoPayload
    /\ uendpoint = None
    /\ ujson = NotRun
    /\ uraw = NotRun

NextUsage ==
    \/ \E pl \in UsagePayloads, endpoint \in ChatFamily : ExtractJson(pl, endpoint)
    \/ \E pl \in UsagePayloads, endpoint \in ChatFamily : ExtractRaw(pl, endpoint)
    \/ NextPayload

-----------------------------------------------------------------------------
(* lifespan and run_jobs (src/src/server.py:11-24) *)

\* What an instance of KeysManager has (api_keys.py:8-24): the attribute
\* keys and the methods add_keys and key_exists.
KeysManager_attributes == {"keys", "add_keys", "key_exists"}

\* One iteration of the loop of run_jobs (server.py:15-17): evaluating
\* keys_manager.refresh_keys raises AttributeError when the instance has no
\* such attribute, and nothing in run_jobs or lifespan catches it, so the
\* task ends; otherwise the refresh is awaited and the task sleeps.
run_jobs_iteration ==
    IF "refresh_keys" \in KeysManager_attributes THEN "sleeping" ELSE "failed"

\* The task gets its first turn on the event loop.
RunJobs ==
    /\ serving
    /\ LoopFree
    /\ job = "scheduled"
    /\ job' = run_jobs_iteration
    /\ UNCHANGED <<serving, pipeVars, keyVars, proxyVars, imgVars, usageVars, taskVars>>

\* The server stops once no request is in progress; lifespan has no code
\* after its yield (server.py:24), so the task is left as it is.
Shutdown ==
    /\ serving
    /\ LoopFree
    /\ rpc = "idle"
    /\ serving' = FALSE
    /\ UNCHANGED <<job, pipeVars, keyVars, proxyVars, imgVars, usageVars, taskVars>>

\* lifespan has run up to its yield: asyncio.create_task(run_jobs()) has
\* scheduled the task (server.py:23).
InitJobs ==
    /\ serving = TRUE
    /\ job = "scheduled"

NextJobs == RunJobs \/ Shutdown

\* What the client has been handed of the stream so far.
Delivered_chunks == buffer \o pending

Init == InitPipeline /\ InitKeys /\ InitProxy /\ InitImage /\ InitJobs /\ InitUsage

\* The image dependencies are installed.  (The application of
\* server.py:27-38 mounts the credential endpoint and the proxy only and
\* never reads the flag.)
InitServer == Init /\ DIFFUSERS_AVAILABLE

Next == NextKeys \/ NextProxy \/ NextJobs

Spec == InitServer /\ [][Next]_vars

SpecPipeline == Init /\ [][NextPipeline]_vars

\* The image router of image_routes.py served next to the credential
\* endpoint.
NextImageService == NextKeys \/ NextImage

SpecImage == InitServer /\ [][NextImageService]_vars

\* The credential endpoint, the image router and proxy_request in front of
\* an upstream that cannot be reached: every forwarded request ends in the
\* except clause of proxy.py:160-162.
NextGateway ==
    \/ NextKeys
    \/ \E token \in RequestTokens, model \in RequestModels, path \in RequestPaths :
          Arrive(token, model, path)
    \/ ReadBody
    \/ SendFails
    \/ NextRequest
    \/ \E r \in DefaultImageRequests({"cat"}) : ImageHandle(r)
    \/ ImageRespond

SpecGateway == Init /\ [][NextGateway]_vars

SpecUsage == InitServer /\ [][NextUsage]_vars

\* The credential endpoint receiving the signed list ["k1"], proxy_request
\* with its upstream, and the image router.
NextEvents ==
    \/ ReceiveApiKeys(MkPayload(TRUE, "object", "iterable", <<"k1">>))
    \/ AddKeys
    \/ NextProxy
    \/ \E r \in DefaultImageRequests({"cat"}) : ImageHandle(r)
    \/ ImageRespond

SpecEvents == InitServer /\ [][NextEvents]_vars

-----------------------------------------------------------------------------
(* Claims about ImagePipelineManager, checked under SpecPipeline *)

AllReturned == \A t \in Threads : tpc[t] = "idle" /\ ret[t] # None

\* C1: when load_pipeline is invoked by all N >= 2 callers concurrently (no
\* call begins after another has returned), the construction is executed
\* exactly once in total and all callers observe the same outcome: all
\* return with a handle available, or all fail with the same category.
C1_OneConstructionSameOutcome ==
    (DIFFUSERS_AVAILABLE /\ overlapAll /\ AllReturned) =>
        /\ constructions = 1
        /\ \A t, u \in Threads : ret[t] = ret[u]
        /\ (\A t \in Threads : ret[t] = "ok") => get_pipeline.error = None

\* C7: Failed is terminal: once a load_pipeline call has failed during
\* construction, no later step starts another construction, and a call
\* begun after the failure returns the preserved failure category.
C7_FailedIsTerminal ==
    [][failedCat # None =>
         /\ constructions' = constructions
         /\ \A t \in Threads :
              (tpc[t] # "idle" /\ tpc'[t] = "idle" /\ sawFail[t]) =>
                  ret'[t] = failedCat]_vars

\* C8: in every state where no load_pipeline call has ever completed
\* successfully (stated here for the states where no call is in progress,
\* which include those after a load that failed part-way through
\* construction), get_pipeline fails with the 'not loaded' error.
C8_GetOnlyAfterSuccessfulLoad ==
    (~loadedOk /\ \A t \in Threads : tpc[t] = "idle") =>
        get_pipeline.error = NotLoaded

-----------------------------------------------------------------------------
(* Claims about the credential set, checked under Spec and SpecGateway *)

C9_FailedUpdateKeepsKeys ==
    upd.status = 400 => keys = upd.before

\* C10: on a successful POST /api-keys the keys array is merged into the
\* set: every credential valid before the request is still valid after it,
\* and every key of the array is valid after it.
C10_UpdateMerges ==
    upd.status = 200 =>
        /\ \A k \in upd.before : key_exists(k)
        /\ \A k \in upd.delivered : key_exists(k)

\* C11: replacement of the credential set is atomic for the request
\* handlers running on the same event loop: a key_exists check made by a
\* request while a credential update is in progress sees the complete set
\* as it was before the update or the complete set the update leaves, never
\* the emptied or partly filled set in between.
C11_UpdateAtomicForReaders ==
    [][((rpc = "idle" /\ rpc' # "idle") \/ (ipc = "idle" /\ ipc' # "idle")) =>
          (kcall.pc # "idle" =>
              keys \in {upd.before, add_keys_or_raise(keys, kcall).keys})]_vars

\* C11 witness: an update that replaces a non-empty set by a non-empty list
\* is between its reset and its add_keys, the set is empty in between, and
\* a proxied request is suspended waiting for the upstream.
C11_Witness ==
    /\ kcall.pc = "add" /\ kcall.elems # {}
    /\ upd.before # {}
    /\ keys = {}
    /\ rpc = "send"

\* C20: before the first successful credential update the credential set
\* is empty and every proxy or image request is rejected with 401, with no
\* upstream call and no pipeline call; the KeysManager() calls made at
\* import have made no credential valid.
C20_DenyAllBeforeFirstUpdate ==
    ~everOk =>
        /\ keys = {}
        /\ rpc # "idle" =>
              (rpc = "done" /\ resp.kind = "error" /\ resp.status = 401 /\ ~sent)
        /\ ipc = "handled" =>
              (iresp.status = 401 /\ ~icalls.load /\ ~icalls.generate)

\* C20 witness: no update has succeeded yet, one has failed, and a proxied
\* request and an image request have both been rejected with 401.
C20_Witness ==
    /\ ~everOk /\ upd.status = 400
    /\ rpc = "done" /\ resp.status = 401
    /\ ipc = "handled" /\ iresp.status = 401

-----------------------------------------------------------------------------
(* Claims about the background task, checked under Spec *)

\* C12: the task started at startup keeps invoking the credential refresh
\* for as long as the process runs: while the process is up the task is
\* alive (scheduled for its next refresh or sleeping between two), a failing
\* refresh does not end it, and once the process has shut down the task has
\* been cancelled.
C12_RefreshTaskRunsWhileUp ==
    /\ serving => job \in {"scheduled", "sleeping"}
    /\ ~serving => job = "cancelled"

-----------------------------------------------------------------------------
(* Claims about proxy_request, checked under Spec *)

Passed(c) == c.key /\ c.model /\ c.text /\ c.path

\* C3: for every proxy_request execution that opened an upstream response,
\* the response has been closed when the execution is over, on every exit
\* path, and a client disconnect raises nothing out of the relay generator.
C3_UpstreamClosedOnEveryExit ==
    rpc = "done" =>
        /\ up.state # "open"
        /\ relay.end = "disconnect" => ~relay.raised

\* C4: proxy_request sends a request upstream only if, when it ran its
\* checks, the credential was in the KeysManager set, the model id was
\* configured, the model was a text model and the path was in its
\* allowed_paths; a request failing one of these is rejected (401, 404 or
\* 400) with no upstream call attempted.
C4_NoUpstreamCallUnlessChecked ==
    /\ sent => Passed(checked)
    /\ (rpc # "idle" /\ ~Passed(checked)) =>
          /\ rpc = "done"
          /\ ~sent
          /\ up.state = "none"
          /\ resp.kind = "error" /\ resp.status \in {400, 401, 404}

\* C4 witness: a checked request has been sent and the upstream answered.
C4_Witness == sent /\ Passed(checked) /\ up.state = "open"

\* C5: for every buffered upstream 2xx response that was read in full, the
\* client receives the upstream body and status unmodified, whether or not
\* usage extraction succeeds.
C5_BufferedBodyUnmodified ==
    (rpc = "done" /\ up.state = "closed" /\ relay.end = "none") =>
        resp = [kind |-> "buffered", status |-> up.status,
                content_type |-> up.content_type, body |-> up.body,
                detail |-> NoDetail]

\* C6 as claimed: when the client disconnects before the upstream stream has
\* completed, the shadow bytes accumulated so far are discarded: no usage
\* event is scheduled from the partial buffer.
C6_PartialBufferDiscarded ==
    (rpc = "done" /\ relay.end = "disconnect") => scheduled = <<>>

\* C6 as amended: when the client disconnects, the relay closes the upstream
\* response, raises nothing, and still attempts raw extraction on the shadow
\* bytes appended so far; a usage event is scheduled exactly when that
\* extraction succeeds.
C6_PartialBufferExtracted ==
    (rpc = "done" /\ relay.end = "disconnect") =>
        /\ up.state = "closed"
        /\ ~relay.raised
        /\ scheduled = add_usage_task(req, extract_usage_info_from_raw(buffer, req.path))

\* C6 witness: a disconnect before the upstream had delivered everything,
\* on a chat-family request, with a usage event scheduled from the partial
\* buffer.
C6_Witness ==
    /\ rpc = "done" /\ relay.end = "disconnect"
    /\ rest # <<>>
    /\ req.path \in ChatFamily
    /\ scheduled # <<>>

\* C13: when the upstream answers a proxied request with a non-2xx status,
\* the client receives an error carrying the upstream's own status code;
\* 500 is returned for a forwarded request only when no upstream status is
\* available (client.send raised).
C13_UpstreamStatusRelayed ==
    (rpc = "done" /\ sent) =>
        /\ (up.state # "none" /\ raise_for_status(up.status)) =>
              (resp.kind = "error" /\ resp.status = up.status)
        /\ (resp.kind = "error" /\ resp.status = 500) =>
              (up.state = "none" \/ up.status = 500)

-----------------------------------------------------------------------------
(* Claims about request validation, checked under SpecGateway and SpecImage *)

\* The status the stated precedence gives a request that fails a check.
PrecedenceStatus(key, model, others) ==
    IF ~key THEN 401 ELSE IF ~model THEN 404 ELSE 400

\* C14: proxy_request maps each failed check to one status in a fixed
\* order: a credential not in the set gives 401 whatever the model and
\* path, otherwise an unknown model gives 404, otherwise a non-text model
\* or a path outside allowed_paths gives 400; validate_model_and_endpoint
\* does the same for image requests (401, then 404, then 400 for a
\* non-image model or an endpoint outside allowed_paths).
C14_CheckPrecedence ==
    /\ (rpc # "idle" /\ ~Passed(checked)) =>
          /\ resp.kind = "error"
          /\ resp.status = PrecedenceStatus(checked.key, checked.model,
                                            checked.text /\ checked.path)
    /\ (ipc = "handled" /\ ~(ichecked.key /\ ichecked.model /\ ichecked.image /\ ichecked.path)) =>
          iresp.status = PrecedenceStatus(ichecked.key, ichecked.model,
                                          ichecked.image /\ ichecked.path)

\* C14 witness: a proxied request and an image request that both carry an
\* invalid credential and an unknown model have both been answered 401.
C14_Witness ==
    /\ rpc = "done" /\ ~checked.key /\ ~checked.model /\ resp.status = 401
    /\ ipc = "handled" /\ ~ichecked.key /\ ~ichecked.model /\ iresp.status = 401

\* The parameters of an image request are valid as the claim states it.
InRange(x, lo, hi) == lo <= x /\ x <= hi

ValidImageParams(r) ==
    /\ strip(r.prompt) # ""
    /\ IF r.dialect = "openai"
         THEN /\ r.n = 1
              /\ r.response_format = "b64_json"
              /\ r.size.form = "WxH"
              /\ InRange(r.size.w, 1, 2048) /\ InRange(r.size.h, 1, 2048)
         ELSE /\ InRange(r.width, 1, 2048) /\ InRange(r.height, 1, 2048)
              /\ InRange(r.steps, 1, 50)
              /\ float_ge(r.cfg_scale, 0)

\* C15: in both image dialects load_pipeline and generate_image are called
\* only with validated parameters (prompt non-empty after trimming, width
\* and height in 1..2048, steps in 1..50, guidance scale >= 0, and for the
\* create-image dialect n = 1, response_format b64_json and a WIDTHxHEIGHT
\* size); a request that passed the credential and model checks and
\* violates one of these is rejected with 400 and neither is called.
C15_OnlyValidatedParameters ==
    (ipc = "handled" /\ ichecked.key /\ ichecked.model /\ ichecked.image /\ ichecked.path) =>
        /\ (icalls.load \/ icalls.generate) => ValidImageParams(ireq)
        /\ ~ValidImageParams(ireq) =>
              (iresp.status = 400 /\ ~icalls.load /\ ~icalls.generate)
        /\ icalls.generate =>
              /\ strip(icalls.args.prompt) # ""
              /\ InRange(icalls.args.width, 1, 2048)
              /\ InRange(icalls.args.height, 1, 2048)
              /\ InRange(icalls.args.steps, 1, 50)
              /\ float_ge(icalls.args.guidance_scale, 0)

\* C18: every 500 response, of the proxy for an upstream failure and of the
\* image endpoints for a load or generation failure, carries a generic
\* message: its detail holds no text of the exception caught.
C18_GenericErrorDetail ==
    /\ (resp.kind = "error" /\ resp.status = 500) => resp.detail.exc = None
    /\ iresp.status = 500 => iresp.detail.exc = None

-----------------------------------------------------------------------------
(* Claims about usage extraction, checked under SpecUsage *)

\* C16: for the chat/completion endpoint family, raw extraction over the
\* bytes of a payload and JSON extraction over the parsed document give the
\* same result for every payload: Usage(p, c, 0) whenever the payload
\* carries a usage object with prompt_tokens = p and completion_tokens = c,
\* also when that object has further, possibly nested, members or earlier
\* text holds the word usage, and the same result when the usage object is
\* absent.
C16_RawAndJsonAgree ==
    (ujson # NotRun /\ uraw # NotRun) =>
        /\ uraw = ujson
        /\ (upayload.usage = "object" /\ upayload.p /\ upayload.c) =>
              (ujson = Usage(5, 7) /\ uraw = Usage(5, 7))

-----------------------------------------------------------------------------
(* Claims about the handling of the upstream response, checked under Spec *)

\* The declared content type is an event-stream one: the media type
\* text/event-stream, with or without parameters.
DeclaresEventStream(content_type) ==
    content_type \in {"text/event-stream", "text/event-stream; charset=utf-8"}

\* C17: an upstream 2xx response is handled as Streamed exactly when its
\* declared content type is an event-stream content type (also when the
\* header carries parameters such as a charset), and as Buffered for every
\* other content type.
C17_StreamedIffEventStream ==
    [][(rpc = "send" /\ up'.state = "open" /\ ~raise_for_status(up'.status)) =>
         IF DeclaresEventStream(up'.content_type)
           THEN rpc' = "stream" /\ resp'.kind = "stream"
           ELSE rpc' = "read"]_vars

-----------------------------------------------------------------------------
(* Claims about report_usage_event_task, checked under Spec *)

\* C19: report_usage_event_task performs at most one POST per usage event
\* and never raises to its caller: on a network error or a non-200 status
\* the event is logged and dropped, with no retry, and the response of the
\* request that produced the event stays as it was.
C19_ReportOnceNeverRaises ==
    /\ report.posts <= 1
    /\ ~report.raised
    /\ report.pc # "idle" =>
         /\ report.posts = 1
         /\ report.event = Head(scheduled)
         /\ resp = report.response
    /\ report.logged # None => report.pc = "returned"

\* C19 witness: the POST of a usage event met a network error, the task
\* printed it and returned, and the request's 200 response is untouched.
C19_Witness ==
    /\ report.pc = "returned"
    /\ report.logged = "exception"
    /\ ~report.raised
    /\ report.posts = 1
    /\ resp.status = 200

-----------------------------------------------------------------------------
(* Claims about the image endpoints, checked under SpecGateway *)

\* C21: an image request for v1/images/generations naming a configured
\* image model whose allowed_paths does not contain that endpoint is
\* answered 400, also with a valid credential, and the pipeline is neither
\* loaded nor invoked.
C21_EndpointOutsideAllowedPaths ==
    (/\ ipc = "handled"
     /\ ireq.dialect = "openai"
     /\ ichecked.key /\ ichecked.model /\ ichecked.image
     /\ "v1/images/generations" \notin MODEL_CONFIGS[ireq.model].allowed_paths) =>
        /\ iresp.status = 400
        /\ iresp.detail = Detail("Invalid endpoint for this model", None)
        /\ ~icalls.load
        /\ ~icalls.generate
        /\ ischeduled = <<>>

\* C21 witness: a create-image request with a valid credential for zturbo,
\* whose allowed_paths lists only sdapi/v1/txt2img, has been answered 400.
C21_Witness ==
    /\ ipc = "handled"
    /\ ireq.dialect = "openai"
    /\ ireq.model = "zturbo"
    /\ ichecked.key
    /\ MODEL_CONFIGS["zturbo"].allowed_paths = {"sdapi/v1/txt2img"}
    /\ iresp.status = 400
    /\ ~icalls.load

-----------------------------------------------------------------------------
(* Claims about the lock of load_pipeline, checked under SpecPipeline *)

\* The threads inside the construction (lines 56-73).
Constructing == {t \in Threads : tpc[t] \in {"from_pretrained", "to"}}

\* The threads inside the with block (lines 53-73).
InWithBlock == {t \in Threads : tpc[t] \in {"recheck", "from_pretrained", "to"}}

\* C22: at most one thread at a time executes the construction inside
\* load_pipeline; a caller that arrives (makes its first test of the handle)
\* while a construction is in progress goes on to block on the lock and to
\* re-check under it; the lock is held exactly by the thread inside the
\* with block, so it is free again after a successful and after a failed
\* construction.
C22_OneConstructorOthersBlock ==
    [][/\ Cardinality(Constructing) <= 1
       /\ InWithBlock = (IF lock = Free THEN {} ELSE {lock})
       /\ \A t \in Threads :
            (tpc[t] = "check" /\ tpc'[t] # "check" /\ Constructing # {}) =>
                tpc'[t] = "acquire"]_vars

\* C24: once load_pipeline has published a handle, no later step performs
\* a construction or replaces the handle, whatever model path a call names:
\* a call that tests the handle returns at once, the handle keeps the first
\* model's path (and, once on the device, stays as it is), and get_pipeline
\* returns that handle.
C24_ReadyIsTerminal ==
    [][pipeline # NoPipeline =>
         /\ pipeline'.path = pipeline.path
         /\ pipeline.on_device => pipeline' = pipeline
         /\ constructions' = constructions
         /\ \A t \in Threads :
              (tpc[t] = "check" /\ tpc'[t] # "check") =>
                  (tpc'[t] = "idle" /\ ret'[t] = "ok")
         /\ got' # got => (got'.error = None /\ got'.handle = pipeline)]_vars

\* C24 witness: the handle of pathA is on the device, its load has returned
\* and get_pipeline has returned it, and a call of load_pipeline for pathB
\* is at its test of the handle.
C24_Witness ==
    /\ pipeline = to_device(from_pretrained("pathA"))
    /\ constructions = 1
    /\ got.handle = pipeline
    /\ \E t, u \in Threads :
         /\ ret[u] = "ok" /\ tpc[u] = "idle"
         /\ tpc[t] = "check" /\ tpath[t] = "pathB"

\* C25: whenever load_pipeline has returned normally to a caller, also to
\* one that took the lock-free fast path while another caller's
\* construction was in progress, the handle get_pipeline gives that caller
\* is fully constructed: its move to the target device has completed.
C25_ReturnedHandleIsOnDevice ==
    \A t \in Threads :
        (tpc[t] = "idle" /\ ret[t] = "ok") =>
            /\ get_pipeline.error = None
            /\ get_pipeline.handle.on_device

-----------------------------------------------------------------------------
(* Claims about generate_chunks, checked under Spec *)

\* The bytes of a sequence of chunks, one after the other.
RECURSIVE Concatenation(_)
Concatenation(chunks) ==
    IF chunks = <<>> THEN <<>> ELSE Head(chunks) \o Concatenation(Tail(chunks))

Relaying(pc) == pc \in {"stream", "yielded"}

\* C23: in streamed handling the chunks are handed to the client one by
\* one in the order received, each before the next upstream chunk is read,
\* none lost and none repeated; when the upstream stream completes, the
\* bytes given to raw usage extraction are the concatenation of all chunks
\* delivered, and extraction is attempted once, after the upstream
\* response has been closed.
C23_RelayInOrderThenExtractOnce ==
    [][/\ (rpc = "send" /\ rpc' = "stream") => (buffer' = <<>> /\ pending' = <<>>)
       /\ (rpc = "stream" /\ rpc' = "yielded") =>
            /\ pending = <<>>
            /\ pending' = Head(rest)
            /\ rest' = Tail(rest)
       /\ (Relaying(rpc) /\ Relaying(rpc')) =>
            /\ Delivered_chunks' \o Concatenation(rest')
                  = Delivered_chunks \o Concatenation(rest)
            /\ scheduled' = <<>>
            /\ up'.state = "open"
       /\ (Relaying(rpc) /\ rpc' = "done" /\ relay'.end = "complete") =>
            /\ rest = <<>> /\ pending = <<>>
            /\ up.state = "open" /\ up'.state = "closed"
            /\ scheduled' =
                  add_usage_task(req, extract_usage_info_from_raw(Delivered_chunks, req.path))
       /\ (rpc = "done" /\ rpc' = "done") => scheduled' = scheduled]_vars

\* C23 witness: an upstream stream of two chunks, with the usage object
\* split across them, has completed; both chunks were delivered and the
\* usage event was scheduled from their concatenation.
C23_Witness ==
    /\ rpc = "done"
    /\ relay.end = "complete"
    /\ up.state = "closed"
    /\ buffer = <<"u", "{", "p">> \o <<",", "c", "}">>
    /\ req.path \in ChatFamily
    /\ scheduled = add_usage_task(req, Usage(5, 7))
    /\ scheduled # <<>>

-----------------------------------------------------------------------------
(* Claims about the scheduling of usage events, checked under SpecEvents *)

\* C26: every request schedules at most one usage event, and schedules one
\* only if it passed the credential, model and path checks and the
\* upstream call (for an image request: the generation) succeeded; a
\* request answered 401, 404 or 400, or 500 before a response was produced,
\* schedules none.
C26_AtMostOneEventOnlyOnSuccess ==
    /\ Len(scheduled) <= 1
    /\ scheduled # <<>> =>
         /\ Passed(checked)
         /\ up.state # "none" /\ ~raise_for_status(up.status)
         /\ resp.kind \in {"buffered", "stream"}
    /\ resp.kind = "error" => scheduled = <<>>
    /\ Len(ischeduled) <= 1
    /\ ischeduled # <<>> =>
         /\ ichecked.key /\ ichecked.model /\ ichecked.image /\ ichecked.path
         /\ icalls.generate
         /\ iresp.status = 200
    /\ iresp.status \in {400, 401, 404, 500} => ischeduled = <<>>

\* C26 witness: a proxied request answered from a 200 upstream response and
\* an image request whose generation succeeded have each scheduled one
\* usage event.
C26_Witness ==
    /\ rpc = "done" /\ resp.kind = "buffered" /\ Len(scheduled) = 1
    /\ ipc = "handled" /\ iresp.status = 200 /\ Len(ischeduled) = 1

====
